---- MODULE Spec2Model ----
(***************************************************************************)
(* The activity heatmap of monkeystats (src/heatmap.py) as a state machine *)
(* that steps through activity_heatmap: the timestamp is read, the window  *)
(* start is computed, the series is padded, the days are bucketed.         *)
(* Dates are UTC day numbers (days since 1970-01-01); Python's None is the *)
(* value None below; a raised exception ends the run in pc = "raised".     *)
(***************************************************************************)
EXTENDS Integers, Sequences, FiniteSets, TLC

\* ------------------------------------------------------------ bounds
\* Longest pattern a generated series repeats.
MaxPat == 2
\* Largest daily count in a generated series.
MaxCount == 9
\* Generated series have lengths 0..MaxShort, MidLen, and around TOTAL_DAYS.
MaxShort == 2
MidLen == 12
\* Longest generated series is TOTAL_DAYS + MaxOver.
MaxOver == 2
\* Number of consecutive days lastDay is drawn from.
NumLastDays == 7
NumStarts == 110
MaxLevel == 20
MaxPending == 2

\* ------------------------------------------------------- program values
\* heatmap.py line 7
TOTAL_DAYS == 7 * 53

\* Python's None (an absent daily count); never a count, counts are >= 0.
None == -1

\* Seconds in one UTC day. Timestamps are held in seconds, the value of
\* activity["lastDay"] / 1000 that datetime.fromtimestamp receives (the
\* millisecond values exceed the model checker's 32-bit integers).
SecPerDay == 24 * 3600

\* Day number of 2025-01-06, a Monday: the first date of the module's own
\* test calls (heatmap.py line 228).
FirstDay == 20094

\* The palette in force in map_counts: the last of the three assignments.
colors == <<236, 239, 243, 246, 252, 3>>

\* ------------------------------------------------------- python helpers
\* A slice bound as Python normalises it: negative counts from the end,
\* then clamped to 0..n.
SliceIndex(i, n) ==
    IF i < 0 THEN (IF i + n < 0 THEN 0 ELSE i + n)
    ELSE (IF i > n THEN n ELSE i)

\* s[start:stop] of Python (0-based, stop excluded).
PySlice(s, start, stop) ==
    LET a == SliceIndex(start, Len(s))
        b == SliceIndex(stop, Len(s))
    IN IF a >= b THEN << >> ELSE SubSeq(s, a + 1, b)

\* [0] * k
Zeros(k) == IF k <= 0 THEN << >> ELSE [i \in 1..k |-> 0]

\* The values of set vals in ascending order, each as often as it occurs in s.
RECURSIVE SortedRuns(_, _)
SortedRuns(s, vals) ==
    IF vals = {} THEN << >>
    ELSE LET least == CHOOSE v \in vals : \A w \in vals : v <= w
             times == Cardinality({i \in 1..Len(s) : s[i] = least})
         IN [k \in 1..times |-> least] \o SortedRuns(s, vals \ {least})

\* sorted(s) for a list of integers.
Sorted(s) == SortedRuns(s, {s[i] : i \in 1..Len(s)})

\* s[lo] + ... + s[hi], halving the range to keep the evaluation shallow.
RECURSIVE SumRange(_, _, _)
SumRange(s, lo, hi) ==
    IF lo > hi THEN 0
    ELSE IF lo = hi THEN s[lo]
    ELSE LET mid == (lo + hi) \div 2
         IN SumRange(s, lo, mid) + SumRange(s, mid + 1, hi)

\* sum(s)
Sum(s) == SumRange(s, 1, Len(s))

\* max(s) of a non-empty list
Max(s) == CHOOSE v \in {s[i] : i \in 1..Len(s)} :
             \A j \in 1..Len(s) : s[j] <= v

\* math.ceil(a / b) for a >= 0, b > 0
Ceil(a, b) == (a + b - 1) \div b

\* Python truthiness of a daily count: None and 0 are false.
Truthy(v) == v # None /\ v # 0

\* datetime.weekday() of a day number: Monday = 0 .. Sunday = 6
\* (1970-01-01 was a Thursday).
Weekday(d) == (d + 3) % 7

\* datetime.fromtimestamp(seconds, tz=UTC), kept to its date.
FromTimestamp(seconds) == seconds \div SecPerDay

\* ------------------------------------------------------------ heatmap.py
\* calc_limits with the second and third limit in each other's place.
calc_limits_unordered(d) ==
    LET filtered == SelectSeq(d, Truthy)
        sorted_data == Sorted(filtered)
        trim_start == Len(sorted_data) \div 10
        trimmed == PySlice(sorted_data, trim_start, -trim_start)
        total == Sum(trimmed)
        n == Len(trimmed)
    IN IF n = 0
       THEN [raised |-> "ZeroDivisionError", limits |-> << >>]
       ELSE LET max_value == Max(filtered)
            IN [raised |-> "",
                limits |-> <<0, Ceil(total, n), Ceil(total, 2 * n),
                             Ceil(3 * total, 2 * n), max_value - 1, max_value>>]

\* calc_limits: the six limits, or the exception it raises.
calc_limits(d) ==
    LET filtered == SelectSeq(d, Truthy)
        sorted_data == Sorted(filtered)
        trim_start == Len(sorted_data) \div 10
        trimmed == PySlice(sorted_data, trim_start, -trim_start)
        total == Sum(trimmed)
        n == Len(trimmed)
    IN IF n = 0
       THEN [raised |-> "ZeroDivisionError", limits |-> << >>]
       ELSE LET max_value == Max(filtered)
            IN [raised |-> "",
                limits |-> <<0, Ceil(total, 2 * n), Ceil(total, n),
                             Ceil(3 * total, 2 * n), max_value - 1, max_value>>]

\* FirstMatch with the comparison strict (count < limit).
FirstMatchStrict(count, lims) ==
    LET zipped == 1..(IF Len(lims) < Len(colors) THEN Len(lims) ELSE Len(colors))
        hits == {i \in zipped : count = None \/ count < lims[i]}
    IN IF hits = {} THEN 0
       ELSE CHOOSE i \in hits : \A j \in hits : i <= j

\* FirstMatch without the "count is None" test, a None count taking no pair.
FirstMatchSkipNone(count, lims) ==
    LET zipped == 1..(IF Len(lims) < Len(colors) THEN Len(lims) ELSE Len(colors))
        hits == {i \in zipped : count # None /\ count <= lims[i]}
    IN IF hits = {} THEN 0
       ELSE CHOOSE i \in hits : \A j \in hits : i <= j

\* The position (1..6) of the first (symbol, limit) pair of zip(colors, limits)
\* that takes the count, 0 when the inner loop ends without a break.
FirstMatch(count, lims) ==
    LET zipped == 1..(IF Len(lims) < Len(colors) THEN Len(lims) ELSE Len(colors))
        hits == {i \in zipped : count = None \/ count <= lims[i]}
    IN IF hits = {} THEN 0
       ELSE CHOOSE i \in hits : \A j \in hits : i <= j

\* map_output with the palette walked from its bright end.
map_output_reversed(d, lims) ==
    LET pos == [i \in 1..Len(d) |-> FirstMatch(d[i], lims)]
        taken == SelectSeq(pos, LAMBDA p : p > 0)
    IN [i \in 1..Len(taken) |-> colors[Len(colors) + 1 - taken[i]]]

\* The output list of map_counts for given limits: one symbol per count that
\* some pair takes, in order.
map_output(d, lims) ==
    LET pos == [i \in 1..Len(d) |-> FirstMatch(d[i], lims)]
        taken == SelectSeq(pos, LAMBDA p : p > 0)
    IN [i \in 1..Len(taken) |-> colors[taken[i]]]

\* range(a, b, step) of Python for step > 0, as a list.
PyRange(a, b, step) ==
    IF b <= a THEN << >>
    ELSE [k \in 1..(((b - a - 1) \div step) + 1) |-> a + (k - 1) * step]

\* identify_month_starts, lines 72-73: the last day of each displayed week.
week_ends(start) ==
    LET r == PyRange(6, TOTAL_DAYS, 7)
    IN [k \in 1..Len(r) |-> start + r[k]]

\* get_start_date without the "+ 1" of its adjustment.
get_start_date_no_shift(last_test_date) ==
    LET start == last_test_date - 52 * 7
    IN start - Weekday(start)

\* get_start_date
get_start_date(last_test_date) ==
    LET start == last_test_date - 52 * 7
    IN start - (Weekday(start) + 1)

\* pad_heatmap_data keeping the oldest full_range days instead of the newest.
pad_heatmap_data_keep_oldest(d, start, tod) ==
    LET full_range == (tod - start) + 1
        padded == IF Len(d) < full_range
                  THEN Zeros(full_range - Len(d)) \o d
                  ELSE d
    IN PySlice(padded, 0, full_range) \o Zeros(53 * 7 - full_range)

\* pad_heatmap_data
pad_heatmap_data(d, start, tod) ==
    LET full_range == (tod - start) + 1
        padded == IF Len(d) < full_range
                  THEN Zeros(full_range - Len(d)) \o d
                  ELSE d
    IN PySlice(padded, -full_range, Len(padded)) \o Zeros(53 * 7 - full_range)

\* ------------------------------------------------------ terminal strings
\* A Python string that holds escape sequences is a list of tokens: literal
\* text, one glyph outside ASCII, a number formatted in decimal, or one
\* escape sequence ESC [ p1 ; p2 ; ... m with its parameters.
Txt(s) == [k |-> "txt", c |-> s, sgr |-> << >>]
Glyph(name) == [k |-> "glyph", c |-> name, sgr |-> << >>]
Num(n) == [k |-> "num", c |-> "", sgr |-> <<n>>]
Esc(params) == [k |-> "esc", c |-> "", sgr |-> params]

\* " " * k
Spaces(k) == IF k <= 0 THEN << >> ELSE [i \in 1..k |-> Txt(" ")]

\* len(str(n)) for n >= 0
RECURSIVE Digits(_)
Digits(n) == IF n < 10 THEN 1 ELSE 1 + Digits(n \div 10)

\* The characters of p1;p2;...;pn
RECURSIVE ParamsLen(_, _)
ParamsLen(params, i) ==
    IF i > Len(params) THEN 0
    ELSE Digits(params[i]) + (IF i < Len(params) THEN 1 ELSE 0)
         + ParamsLen(params, i + 1)

\* len() of one token: an escape sequence counts all its characters.
TokenLen(t) ==
    CASE t.k = "txt" -> Len(t.c)
      [] t.k = "glyph" -> 1
      [] t.k = "num" -> Digits(t.sgr[1])
      [] t.k = "esc" -> 2 + ParamsLen(t.sgr, 1) + 1

\* len() of a string
RECURSIVE PyLen(_, _, _)
PyLen(ts, lo, hi) ==
    IF lo > hi THEN 0
    ELSE IF lo = hi THEN TokenLen(ts[lo])
    ELSE LET mid == (lo + hi) \div 2
         IN PyLen(ts, lo, mid) + PyLen(ts, mid + 1, hi)

\* "".join(parts[lo..hi])
RECURSIVE Join(_, _, _)
Join(parts, lo, hi) ==
    IF lo > hi THEN << >>
    ELSE IF lo = hi THEN parts[lo]
    ELSE LET mid == (lo + hi) \div 2
         IN Join(parts, lo, mid) \o Join(parts, mid + 1, hi)

\* s[start::2] of Python (0-based start)
EveryOther(s, start) ==
    IF Len(s) <= start THEN << >>
    ELSE [k \in 1..((Len(s) - start + 1) \div 2) |-> s[start + 2 * k - 1]]

\* The fill value " " of zip_longest in activity_heatmap (never a colour).
Blank == -2

\* ------------------------------------------------------------- calendar
\* datetime's proleptic Gregorian calendar: the (year, month, day) of a day
\* number counted from 1970-01-01.
CivilFromDays(d) ==
    LET z == d + 719468
        era == z \div 146097
        doe == z - era * 146097
        yoe == (doe - doe \div 1460 + doe \div 36524 - doe \div 146096) \div 365
        doy == doe - (365 * yoe + yoe \div 4 - yoe \div 100)
        mp == (5 * doy + 2) \div 153
        m == IF mp < 10 THEN mp + 3 ELSE mp - 9
    IN [year |-> yoe + era * 400 + (IF m <= 2 THEN 1 ELSE 0),
        month |-> m,
        day |-> doy - (153 * mp + 2) \div 5 + 1]

\* ------------------------------------------------------------ rendering
\* activity_heatmap line 195: heatmap[i : i + 7] for i in range(0, TOTAL_DAYS, 7)
split_weeks(hm) ==
    LET r == PyRange(0, TOTAL_DAYS, 7)
    IN [w \in 1..Len(r) |-> PySlice(hm, r[w], r[w] + 7)]

\* activity_heatmap line 196: list(zip_longest(*weeks, fillvalue=" "))
transpose(wks) ==
    LET lens == {Len(wks[w]) : w \in 1..Len(wks)}
        longest == IF lens = {} THEN 0
                   ELSE CHOOSE n \in lens : \A m \in lens : m <= n
    IN [r \in 1..longest |->
          [w \in 1..Len(wks) |->
              IF r <= Len(wks[w]) THEN wks[w][r] ELSE Blank]]

\* make_half_rows.plot: the lower half block, its lower half in the
\* foreground colour fg and its upper half in the background colour bg.
plot(bg, fg) ==
    <<Esc(<<38, 5, fg>>), Esc(<<48, 5, bg>>), Glyph("lower_half_block"),
      Esc(<<0>>)>>

\* make_half_rows with the blank row left out (rows paired as they come).
make_half_rows_unpadded(rws) ==
    LET tops == EveryOther(rws, 0)
        bottoms == EveryOther(rws, 1)
        n == IF Len(tops) > Len(bottoms) THEN Len(tops) ELSE Len(bottoms)
        fill == [i \in 1..53 |-> 0]
        top(l) == IF l <= Len(tops) THEN tops[l] ELSE fill
        bottom(l) == IF l <= Len(bottoms) THEN bottoms[l] ELSE fill
        width(l) == IF Len(top(l)) < Len(bottom(l))
                    THEN Len(top(l)) ELSE Len(bottom(l))
    IN [l \in 1..n |->
          LET glyphs == [c \in 1..width(l) |-> plot(top(l)[c], bottom(l)[c])]
          IN Join(glyphs, 1, Len(glyphs))]

\* make_half_rows
make_half_rows(rws) ==
    LET padded == <<[i \in 1..53 |-> 0]>> \o rws
        tops == EveryOther(padded, 0)
        bottoms == EveryOther(padded, 1)
        n == IF Len(tops) > Len(bottoms) THEN Len(tops) ELSE Len(bottoms)
        fill == [i \in 1..53 |-> 0]
        top(l) == IF l <= Len(tops) THEN tops[l] ELSE fill
        bottom(l) == IF l <= Len(bottoms) THEN bottoms[l] ELSE fill
        width(l) == IF Len(top(l)) < Len(bottom(l))
                    THEN Len(top(l)) ELSE Len(bottom(l))
    IN [l \in 1..n |->
          LET glyphs == [c \in 1..width(l) |-> plot(top(l)[c], bottom(l)[c])]
          IN Join(glyphs, 1, Len(glyphs))]

\* add_row_labels
add_row_labels(rws) ==
    [l \in 1..Len(rws) |->
        <<Txt(" "), Esc(<<48, 5, 0>>), Txt(" ")>> \o rws[l]
            \o <<Esc(<<48, 5, 0>>), Txt(" "), Esc(<<0>>)>>]

\* The palette of the header's key (activity_heatmap line 203).
key_colors == <<234, 25, 31, 38, 6, 3>>

\* activity_heatmap lines 201-207: the header line.
make_header(d) ==
    LET header_left == <<Txt(" "), Esc(<<48, 5, 0>>), Txt(" last 12 months "),
                         Glyph("em_dash"), Txt(" "),
                         Num(Sum(SelectSeq(d, Truthy))), Txt(" tests")>>
        swatches == [i \in 1..Len(key_colors) |->
                        <<Esc(<<38, 5, key_colors[i]>>), Glyph("black_square")>>]
        header_right == <<Txt("less ")>> \o Join(swatches, 1, Len(swatches))
                            \o <<Txt(" more "), Esc(<<0>>)>>
    IN header_left
         \o Spaces(48 - PyLen(header_left, 1, Len(header_left)))
         \o header_right

months == <<"jan", "feb", "mar", "apr", "may", "jun", "jul", "aug", "sep",
            "oct", "nov", "dec">>

\* identify_month_starts looking at the first day of each week, not the last.
identify_month_starts_by_sunday(start) ==
    LET r == PyRange(0, TOTAL_DAYS, 7)
        hit(k) == CivilFromDays(start + r[k]).day < 8
        picked == SelectSeq([k \in 1..Len(r) |-> k], hit)
    IN [month_starts |-> [j \in 1..Len(picked) |-> r[picked[j]] \div 7],
        month_names |-> [j \in 1..Len(picked) |->
                            months[CivilFromDays(start + r[picked[j]]).month]]]

\* identify_month_starts: the week columns whose last day has a day of month
\* below 8, and the names of those months.
identify_month_starts(start) ==
    LET r == PyRange(6, TOTAL_DAYS, 7)
        hit(k) == CivilFromDays(start + r[k]).day < 8
        picked == SelectSeq([k \in 1..Len(r) |-> k], hit)
    IN [month_starts |-> [j \in 1..Len(picked) |-> r[picked[j]] \div 7],
        month_names |-> [j \in 1..Len(picked) |->
                            months[CivilFromDays(start + r[picked[j]]).month]]]

\* add_month_labels lines 90-96: the footer from the month starts found, or
\* the exception its indexing raises when no month starts in the window.
join_month_labels(month) ==
    LET starts == EveryOther(month.month_starts, 0)
        names == EveryOther(month.month_names, 0)
        pairs == IF Len(starts) < 2 THEN 0 ELSE Len(starts) - 1
        zipped == IF Len(names) < pairs THEN Len(names) ELSE pairs
        output == [j \in 1..zipped |->
                     <<Txt(names[j])>>
                        \o Spaces((starts[j + 1] - starts[j]) - 3)]
    IN IF Len(names) = 0
       THEN [raised |-> "IndexError", text |-> << >>]
       ELSE [raised |-> "",
             text |-> <<Txt(" "), Esc(<<48, 5, 0>>)>>
                        \o Spaces(1 + month.month_starts[1])
                        \o Join(output, 1, Len(output))
                        \o <<Txt(names[Len(names)]), Txt("    "), Esc(<<0>>)>>]

\* add_month_labels
add_month_labels(start) == join_month_labels(identify_month_starts(start))

\* ------------------------------------------------------- levels and XP
\* math.floor(math.sqrt(n)) for n >= 0, by bisection: the largest r with
\* r * r <= n.
RECURSIVE ISqrtIn(_, _, _)
ISqrtIn(n, lo, hi) ==
    IF lo >= hi THEN lo
    ELSE LET mid == (lo + hi + 1) \div 2
         IN IF mid * mid <= n THEN ISqrtIn(n, mid, hi)
                              ELSE ISqrtIn(n, lo, mid - 1)

ISqrt(n) == ISqrtIn(n, 0, IF n < 46340 THEN n ELSE 46340)

\* utils/xp.py get_level: floor((sqrt(392 xp + 22801) - 53) / 98). The floor
\* of (sqrt(v) - 53) / 98 is that of (floor(sqrt(v)) - 53) / 98.
get_level(xp) == (ISqrt(392 * xp + 22801) - 53) \div 98

\* utils/xp.py get_level_max_xp
get_level_max_xp(level) == 49 * (level - 1) + 100

\* get_total_level_xp with the constant term of level 2's threshold wrong.
get_total_level_xp_off(level) == (49 * (level * level) + 53 * level - 100) \div 2

\* utils/xp.py get_total_level_xp
get_total_level_xp(level) == (49 * (level * level) + 53 * level - 102) \div 2

\* utils/xp.py get_level_current_xp
get_level_current_xp(xp) == xp - get_total_level_xp(get_level(xp))

\* xp_utils.py calculate_level
calculate_level(xp) == (ISqrt(392 * xp + 22801) - 53) \div 98

\* xp_utils.py remaining_level_xp
remaining_level_xp(level) == 49 * (level - 1) + 100

\* xp_utils.py total_level_xp
total_level_xp(level) == (49 * (level * level) + 53 * level - 102) \div 2

\* xp_utils.py level_details: its four numbers.
level_details(xp) ==
    LET level == calculate_level(xp)
        current_xp == xp - total_level_xp(level)
        max_xp == remaining_level_xp(level)
    IN [level |-> level, current_xp |-> current_xp, max_xp |-> max_xp,
        needed_xp |-> max_xp - current_xp]

\* ------------------------------------------------------ the ANSI builder
\* An ANSI object is its two fields: codes, the pending codes (each the list
\* of numbers between its semicolons), and state, a dict from "bold", "ital",
\* "uline" (to True) and "fg", "bg" (to the colour's code).
NewANSI == [codes |-> << >>, state |-> << >>]

\* state[key] = value
DictSet(d, key, value) ==
    [k \in DOMAIN d \cup {key} |-> IF k = key THEN value ELSE d[k]]

\* state.pop(key, None)
DictPop(d, key) == [k \in DOMAIN d \ {key} |-> d[k]]

\* The property of an attribute: "if key not in self.state".
Enable(a, key, code) ==
    IF key \notin DOMAIN a.state
    THEN [codes |-> Append(a.codes, code), state |-> DictSet(a.state, key, TRUE)]
    ELSE a

\* The property that ends an attribute: "if self.state.get(key)".
Disable(a, key, code) ==
    IF key \in DOMAIN a.state /\ a.state[key] = TRUE
    THEN [codes |-> Append(a.codes, code), state |-> DictPop(a.state, key)]
    ELSE a

bold(a) == Enable(a, "bold", <<1>>)
bold_off(a) == Disable(a, "bold", <<22>>)
ital(a) == Enable(a, "ital", <<3>>)
ital_off(a) == Disable(a, "ital", <<23>>)
uline(a) == Enable(a, "uline", <<4>>)
uline_off(a) == Disable(a, "uline", <<24>>)

SHORT_CODES ==
    <<"black", "red", "green", "yellow", "blue", "magenta", "cyan", "white",
      "bright_black", "bright_red", "bright_green", "bright_yellow",
      "bright_blue", "bright_magenta", "bright_cyan", "bright_white">>

\* A colour argument: a name or an integer.
NameArg(name) == [kind |-> "str", name |-> name, num |-> 0]
IntArg(num) == [kind |-> "int", name |-> "", num |-> num]

\* _get_color_code: the code of a colour, or the exception raised.
get_color_code(color, mode) ==
    LET known == color.kind = "str" =>
                    \E i \in 1..Len(SHORT_CODES) : SHORT_CODES[i] = color.name
        c == IF color.kind = "str"
             THEN (CHOOSE i \in 1..Len(SHORT_CODES) :
                      SHORT_CODES[i] = color.name) - 1
             ELSE color.num
    IN IF ~known THEN [raised |-> "ValueError", code |-> << >>]
       ELSE IF ~(0 <= c /\ c <= 255)
       THEN [raised |-> "ValueError", code |-> << >>]
       ELSE IF 0 <= c /\ c <= 7
       THEN [raised |-> "", code |-> <<IF mode = "fg" THEN 30 + c ELSE 40 + c>>]
       ELSE IF 8 <= c /\ c <= 15
       THEN [raised |-> "",
             code |-> <<IF mode = "fg" THEN 90 + (c - 8) ELSE 100 + (c - 8)>>]
       ELSE [raised |-> "",
             code |-> <<IF mode = "fg" THEN 38 ELSE 48, 5, c>>]

\* _set_color that appends the code whether or not the colour changes.
set_color_always(a, color, mode) ==
    LET r == get_color_code(color, mode)
    IN IF r.raised # "" THEN a
       ELSE [codes |-> Append(a.codes, r.code),
             state |-> DictSet(a.state, mode, r.code)]

\* _set_color; an exception of _get_color_code leaves the object as it was.
set_color(a, color, mode) ==
    LET r == get_color_code(color, mode)
    IN IF r.raised # "" THEN a
       ELSE IF mode \notin DOMAIN a.state \/ a.state[mode] # r.code
       THEN [codes |-> Append(a.codes, r.code),
             state |-> DictSet(a.state, mode, r.code)]
       ELSE a

\* ';'.join(self.codes), as the numbers between the semicolons
RECURSIVE JoinCodes(_)
JoinCodes(cds) ==
    IF cds = << >> THEN << >> ELSE Head(cds) \o JoinCodes(Tail(cds))

\* __str__: the string returned and the object afterwards.
dunder_str(a) ==
    IF a.codes = << >>
    THEN [ret |-> << >>, ansi |-> a]
    ELSE [ret |-> <<Esc(JoinCodes(a.codes))>>,
          ansi |-> [codes |-> << >>, state |-> a.state]]

\* reset: the string returned and the object afterwards.
reset(a) == [ret |-> <<Esc(<<0>>)>>, ansi |-> NewANSI]

\* apply: f"{self}{text}{self.reset}", or the text alone when no code is
\* pending.
apply(a, text) ==
    IF a.codes = << >>
    THEN [ret |-> <<Txt(text)>>, ansi |-> a]
    ELSE LET first == dunder_str(a)
             last == reset(first.ansi)
         IN [ret |-> first.ret \o <<Txt(text)>> \o last.ret,
             ansi |-> last.ansi]

\* ---------------------------------------------------------- the terminal
\* What a terminal has active: the attributes, and the colour numbers
\* (None: the default colour).
TermClear ==
    [bold |-> FALSE, ital |-> FALSE, uline |-> FALSE, fg |-> None, bg |-> None]

\* One parameter of ESC [ ... m.
Sgr1(c, t) ==
    CASE c = 0 -> TermClear
      [] c = 1 -> [t EXCEPT !.bold = TRUE]
      [] c = 22 -> [t EXCEPT !.bold = FALSE]
      [] c = 3 -> [t EXCEPT !.ital = TRUE]
      [] c = 23 -> [t EXCEPT !.ital = FALSE]
      [] c = 4 -> [t EXCEPT !.uline = TRUE]
      [] c = 24 -> [t EXCEPT !.uline = FALSE]
      [] 30 <= c /\ c <= 37 -> [t EXCEPT !.fg = c - 30]
      [] 90 <= c /\ c <= 97 -> [t EXCEPT !.fg = c - 90 + 8]
      [] 40 <= c /\ c <= 47 -> [t EXCEPT !.bg = c - 40]
      [] 100 <= c /\ c <= 107 -> [t EXCEPT !.bg = c - 100 + 8]
      [] OTHER -> t

\* The parameters of one ESC [ ... m, from the i-th on; 38;5;n and 48;5;n
\* take three.
RECURSIVE Sgr(_, _, _)
Sgr(params, i, t) ==
    IF i > Len(params) THEN t
    ELSE IF params[i] \in {38, 48} /\ i + 2 <= Len(params) /\ params[i + 1] = 5
    THEN Sgr(params, i + 3,
             IF params[i] = 38 THEN [t EXCEPT !.fg = params[i + 2]]
                               ELSE [t EXCEPT !.bg = params[i + 2]])
    ELSE Sgr(params, i + 1, Sgr1(params[i], t))

\* A string written to the terminal.
RECURSIVE Write(_, _)
Write(ts, t) ==
    IF ts = << >> THEN t
    ELSE Write(Tail(ts),
               IF Head(ts).k = "esc" THEN Sgr(Head(ts).sgr, 1, t) ELSE t)

\* ---------------------------------------------------------------- inputs
Counts == {0, 1, 2, MaxCount}
Cells == Counts \cup {None}
Patterns == UNION {[1..k -> Cells] : k \in 1..MaxPat}
Lengths == (0..MaxShort) \cup {MidLen}
              \cup ((TOTAL_DAYS - 1)..(TOTAL_DAYS + MaxOver))
Cycle(pat, n) == [i \in 1..n |-> pat[((i - 1) % Len(pat)) + 1]]
\* The series of the specification's own worked example.
Scenario == <<10, 0, 5, None, 20>>
Series == {Cycle(p, n) : p \in Patterns, n \in Lengths} \cup {Scenario}
\* lastDay timestamps: NumLastDays consecutive days, at differing times of day.
LastDays == {(FirstDay + k) * SecPerDay + k * 3600 : k \in 0..(NumLastDays - 1)}

\* The Sundays a window can start on: NumStarts of them in a row, from the
\* window of FirstDay.
Starts == {get_start_date(FirstDay) + 7 * k : k \in 0..(NumStarts - 1)}

\* The XP values around the threshold of a level: the last XP of the level
\* before, every XP of the level, and the first XP of the next.
XpAround(level) ==
    {x \in (get_total_level_xp(level) - 1)..
              (get_total_level_xp(level) + get_level_max_xp(level)) : x >= 0}

\* The colours given to fg and bg: a name and the same colour as a number, a
\* bright colour, a colour of the 256 palette, and two that are refused.
ColorArgs ==
    {NameArg("red"), IntArg(1), IntArg(9), IntArg(200), IntArg(256),
     NameArg("mauve")}

\* ----------------------------------------------------------------- state
VARIABLES pc, testsByDays, lastDay, today, start_date, data, limits, heatmap,
          error, activity,
          \* activity_heatmap's later locals and its returned lines
          weeks, rows, half_rows, header, labeled_rows, month_labels,
          \* the result of a second pad_heatmap_data over the padded series
          repadded,
          \* add_month_labels' month_starts and month_names
          found,
          \* a level, its threshold, a Profile's fields and level_details' numbers
          xp_level, total_xp, profile, details,
          \* an ANSI object, what the terminal has active after the strings
          \* written to it, the string the last call returned, and that call
          ansi, term, ret, last

renderVars == <<weeks, rows, half_rows, header, labeled_rows, month_labels>>

xpVars == <<xp_level, total_xp, profile, details>>

ansiVars == <<ansi, term, ret, last>>

sideVars == <<repadded, found, xpVars, ansiVars>>

vars == <<pc, testsByDays, lastDay, today, start_date, data, limits, heatmap,
          error, activity, renderVars, sideVars>>

NoActivity == [daily_test_count |-> << >>, last_day |-> None]

\* Nothing rendered yet.
RenderIdle ==
    /\ weeks = << >>
    /\ rows = << >>
    /\ half_rows = << >>
    /\ header = << >>
    /\ labeled_rows = << >>
    /\ month_labels = << >>

NothingFound == [month_starts |-> << >>, month_names |-> << >>]

\* The functions that activity_heatmap does not reach are not running.
NoProfile == [xp |-> None, level |-> None, level_current_xp |-> None,
              level_max_xp |-> None]

NoDetails == [level |-> None, current_xp |-> None, max_xp |-> None,
              needed_xp |-> None]

XpIdle ==
    /\ xp_level = None
    /\ total_xp = None
    /\ profile = NoProfile
    /\ details = NoDetails

NoCall == [op |-> "", redundant |-> FALSE, appended |-> 0]

AnsiIdle ==
    /\ ansi = NewANSI
    /\ term = TermClear
    /\ ret = << >>
    /\ last = NoCall

SideIdle ==
    /\ repadded = << >>
    /\ found = NothingFound
    /\ XpIdle
    /\ AnsiIdle

Init ==
    /\ pc = "start"
    /\ testsByDays \in Series
    /\ lastDay \in LastDays
    /\ today = None
    /\ start_date = None
    /\ data = << >>
    /\ limits = << >>
    /\ heatmap = << >>
    /\ error = ""
    /\ activity = NoActivity
    /\ RenderIdle
    /\ SideIdle

\* Activity.from_api (client/models.py): the client's value object built from
\* the fetched payload. Nothing in the repository hands an Activity to
\* activity_heatmap (it takes the payload itself), so the run ends here.
FromApi ==
    /\ pc = "start"
    /\ pc' = "fetched"
    /\ activity' = [daily_test_count |->
                        [i \in 1..Len(testsByDays) |->
                            IF Truthy(testsByDays[i]) THEN testsByDays[i] ELSE 0],
                    last_day |-> FromTimestamp(lastDay)]
    /\ UNCHANGED <<testsByDays, lastDay, today, start_date, data, limits,
                   heatmap, error>>
    /\ UNCHANGED <<renderVars, sideVars>>

\* activity_heatmap lines 184-186
ReadActivity ==
    /\ pc = "start"
    /\ data' = testsByDays
    /\ today' = FromTimestamp(lastDay)
    /\ pc' = "read"
    /\ UNCHANGED <<testsByDays, lastDay, start_date, limits, heatmap, error,
                   activity>>
    /\ UNCHANGED <<renderVars, sideVars>>

\* activity_heatmap line 188
GetStartDate ==
    /\ pc = "read"
    /\ start_date' = get_start_date(today)
    /\ pc' = "dated"
    /\ UNCHANGED <<testsByDays, lastDay, today, data, limits, heatmap, error,
                   activity>>
    /\ UNCHANGED <<renderVars, sideVars>>

\* activity_heatmap line 190
PadHeatmapData ==
    /\ pc = "dated"
    /\ data' = pad_heatmap_data(data, start_date, today)
    /\ pc' = "padded"
    /\ UNCHANGED <<testsByDays, lastDay, today, start_date, limits, heatmap,
                   error, activity>>
    /\ UNCHANGED <<renderVars, sideVars>>

\* activity_heatmap line 192: map_counts, with its call of calc_limits.
MapCounts ==
    /\ pc = "padded"
    /\ LET r == calc_limits(data)
       IN IF r.raised # ""
          THEN /\ error' = r.raised
               /\ pc' = "raised"
               /\ UNCHANGED <<limits, heatmap>>
          ELSE /\ limits' = r.limits
               /\ heatmap' = map_output(data, r.limits)
               /\ pc' = "mapped"
               /\ UNCHANGED error
    /\ UNCHANGED <<testsByDays, lastDay, today, start_date, data, activity>>
    /\ UNCHANGED <<renderVars, sideVars>>

heatVars == <<testsByDays, lastDay, today, start_date, data, limits, heatmap,
              error, activity, sideVars>>

\* activity_heatmap lines 195-196
SplitWeeks ==
    /\ pc = "mapped"
    /\ weeks' = split_weeks(heatmap)
    /\ rows' = transpose(weeks')
    /\ pc' = "split"
    /\ UNCHANGED <<heatVars, half_rows, header, labeled_rows, month_labels>>

\* activity_heatmap line 198
MakeHalfRows ==
    /\ pc = "split"
    /\ half_rows' = make_half_rows(rows)
    /\ pc' = "halved"
    /\ UNCHANGED <<heatVars, weeks, rows, header, labeled_rows, month_labels>>

\* activity_heatmap lines 201-207
MakeHeader ==
    /\ pc = "halved"
    /\ header' = make_header(data)
    /\ pc' = "headed"
    /\ UNCHANGED <<heatVars, weeks, rows, half_rows, labeled_rows, month_labels>>

\* activity_heatmap lines 208-211: the labelled rows and the footer; the
\* returned text is header, labeled_rows and month_labels, one per line.
AddLabels ==
    /\ pc = "headed"
    /\ labeled_rows' = add_row_labels(half_rows)
    /\ LET r == add_month_labels(start_date)
       IN IF r.raised # ""
          THEN /\ error' = r.raised
               /\ pc' = "raised"
               /\ UNCHANGED month_labels
          ELSE /\ month_labels' = r.text
               /\ pc' = "done"
               /\ UNCHANGED error
    /\ UNCHANGED <<testsByDays, lastDay, today, start_date, data, limits,
                   heatmap, activity, weeks, rows, half_rows, header, sideVars>>

Next ==
    \/ FromApi
    \/ ReadActivity
    \/ GetStartDate
    \/ PadHeatmapData
    \/ MapCounts
    \/ SplitWeeks
    \/ MakeHalfRows
    \/ MakeHeader
    \/ AddLabels

Spec == Init /\ [][Next]_vars

\* -------------------------------------------- pad_heatmap_data, applied twice
\* pad_heatmap_data called again on its own result, with the same start_date
\* and today.
PadAgain ==
    /\ pc = "padded"
    /\ repadded' = pad_heatmap_data(data, start_date, today)
    /\ pc' = "repadded"
    /\ UNCHANGED <<testsByDays, lastDay, today, start_date, data, limits,
                   heatmap, error, activity, renderVars, found, xpVars, ansiVars>>

NextIdem ==
    \/ ReadActivity
    \/ GetStartDate
    \/ PadHeatmapData
    \/ PadAgain

SpecIdem == Init /\ [][NextIdem]_vars

\* ------------------------------------------ add_month_labels on its own
\* add_month_labels for a window that starts on any of the Sundays.
InitLabels ==
    /\ pc = "labels"
    /\ testsByDays = << >>
    /\ lastDay = None
    /\ today = None
    /\ start_date \in Starts
    /\ data = << >>
    /\ limits = << >>
    /\ heatmap = << >>
    /\ error = ""
    /\ activity = NoActivity
    /\ RenderIdle
    /\ SideIdle

\* add_month_labels line 87
IdentifyMonthStarts ==
    /\ pc = "labels"
    /\ found' = identify_month_starts(start_date)
    /\ pc' = "identified"
    /\ UNCHANGED <<testsByDays, lastDay, today, start_date, data, limits,
                   heatmap, error, activity, renderVars, repadded, xpVars, ansiVars>>

\* add_month_labels lines 90-96
AddMonthLabels ==
    /\ pc = "identified"
    /\ LET r == join_month_labels(found)
       IN IF r.raised # ""
          THEN /\ error' = r.raised
               /\ pc' = "raised"
               /\ UNCHANGED month_labels
          ELSE /\ month_labels' = r.text
               /\ pc' = "labelled"
               /\ UNCHANGED error
    /\ UNCHANGED <<testsByDays, lastDay, today, start_date, data, limits,
                   heatmap, activity, weeks, rows, half_rows, header,
                   labeled_rows, sideVars>>

NextLabels ==
    \/ IdentifyMonthStarts
    \/ AddMonthLabels

SpecLabels == InitLabels /\ [][NextLabels]_vars

\* ------------------------------------------------- levels, on their own
\* No heatmap is being drawn.
HeatmapIdle ==
    /\ testsByDays = << >>
    /\ lastDay = None
    /\ today = None
    /\ start_date = None
    /\ data = << >>
    /\ limits = << >>
    /\ heatmap = << >>
    /\ error = ""
    /\ activity = NoActivity
    /\ RenderIdle

mainVars == <<testsByDays, lastDay, today, start_date, data, limits, heatmap,
              error, activity, renderVars>>

InitXp ==
    /\ pc = "xp"
    /\ HeatmapIdle
    /\ repadded = << >>
    /\ found = NothingFound
    /\ xp_level \in 1..MaxLevel
    /\ total_xp = None
    /\ profile = NoProfile
    /\ details = NoDetails
    /\ AnsiIdle

\* get_total_level_xp(level)
GetTotalLevelXp ==
    /\ pc = "xp"
    /\ total_xp' = get_total_level_xp(xp_level)
    /\ pc' = "totalled"
    /\ UNCHANGED <<mainVars, repadded, found, xp_level, profile, details, ansiVars>>

\* Profile.__post_init__ for a profile with some XP near the threshold.
ProfilePostInit ==
    /\ pc = "totalled"
    /\ \E xp \in XpAround(xp_level) :
          profile' = [xp |-> xp,
                      level |-> get_level(xp),
                      level_current_xp |-> get_level_current_xp(xp),
                      level_max_xp |-> get_level_max_xp(get_level(xp))]
    /\ pc' = "profiled"
    /\ UNCHANGED <<mainVars, repadded, found, xp_level, total_xp, details, ansiVars>>

\* level_details for the same XP.
LevelDetails ==
    /\ pc = "profiled"
    /\ details' = level_details(profile.xp)
    /\ pc' = "detailed"
    /\ UNCHANGED <<mainVars, repadded, found, xp_level, total_xp, profile, ansiVars>>

NextXp ==
    \/ GetTotalLevelXp
    \/ ProfilePostInit
    \/ LevelDetails

SpecXp == InitXp /\ [][NextXp]_vars

\* ------------------------------------------ the ANSI builder, on its own
InitAnsi ==
    /\ pc = "ansi"
    /\ HeatmapIdle
    /\ repadded = << >>
    /\ found = NothingFound
    /\ XpIdle
    /\ AnsiIdle

\* A call that returns the object: its fields change, no string is returned
\* and nothing is written.
Chained(op, redundant, after) ==
    /\ Len(after.codes) <= MaxPending
    /\ ansi' = after
    /\ ret' = << >>
    /\ last' = [op |-> op, redundant |-> redundant,
                appended |-> Len(after.codes) - Len(ansi.codes)]
    /\ UNCHANGED <<pc, mainVars, repadded, found, xpVars, term>>

\* A call that returns a string, which is written to the terminal.
Flushed(op, result) ==
    /\ ansi' = result.ansi
    /\ ret' = result.ret
    /\ term' = Write(result.ret, term)
    /\ last' = [op |-> op, redundant |-> FALSE, appended |-> 0]
    /\ UNCHANGED <<pc, mainVars, repadded, found, xpVars>>

Bold ==
    /\ pc = "ansi"
    /\ Chained("bold", "bold" \in DOMAIN ansi.state, bold(ansi))
BoldOff ==
    /\ pc = "ansi"
    /\ Chained("bold_off", "bold" \notin DOMAIN ansi.state, bold_off(ansi))
Ital ==
    /\ pc = "ansi"
    /\ Chained("ital", "ital" \in DOMAIN ansi.state, ital(ansi))
ItalOff ==
    /\ pc = "ansi"
    /\ Chained("ital_off", "ital" \notin DOMAIN ansi.state, ital_off(ansi))
Uline ==
    /\ pc = "ansi"
    /\ Chained("uline", "uline" \in DOMAIN ansi.state, uline(ansi))
UlineOff ==
    /\ pc = "ansi"
    /\ Chained("uline_off", "uline" \notin DOMAIN ansi.state, uline_off(ansi))

\* The colour number an argument stands for (None: no colour).
ColorNumber(color) ==
    IF color.kind = "int" THEN color.num
    ELSE IF \E i \in 1..Len(SHORT_CODES) : SHORT_CODES[i] = color.name
    THEN (CHOOSE i \in 1..Len(SHORT_CODES) : SHORT_CODES[i] = color.name) - 1
    ELSE None

\* The colour number of a colour's code.
CodeColor(code) ==
    LET t == Sgr(code, 1, TermClear) IN IF t.fg # None THEN t.fg ELSE t.bg

\* ansi.fg(color) and ansi.bg(color): _ColorProxy.__call__
ColorCall ==
    /\ pc = "ansi"
    /\ \E mode \in {"fg", "bg"}, color \in ColorArgs :
        Chained(mode,
                /\ mode \in DOMAIN ansi.state
                /\ CodeColor(ansi.state[mode]) = ColorNumber(color),
                set_color(ansi, color, mode))

\* ansi.fg.red and the like: _ColorProxy.__getattr__
ColorAttr ==
    /\ pc = "ansi"
    /\ \E mode \in {"fg", "bg"},
          color \in {c \in ColorArgs : c.kind = "str"} :
        Chained(mode,
                /\ mode \in DOMAIN ansi.state
                /\ CodeColor(ansi.state[mode]) = ColorNumber(color),
                set_color(ansi, color, mode))

Str ==
    /\ pc = "ansi"
    /\ Flushed("str", dunder_str(ansi))
Reset ==
    /\ pc = "ansi"
    /\ Flushed("reset", reset(ansi))
Apply ==
    /\ pc = "ansi"
    /\ Flushed("apply", apply(ansi, "x"))

NextAnsi ==
    \/ Bold
    \/ BoldOff
    \/ Ital
    \/ ItalOff
    \/ Uline
    \/ UlineOff
    \/ ColorCall
    \/ ColorAttr
    \/ Str
    \/ Reset
    \/ Apply

SpecAnsi == InitAnsi /\ [][NextAnsi]_vars

\* ----------------------------------------------------------------- claims
\* The level (0..5) a palette symbol stands for.
LevelOf(symbol) == (CHOOSE k \in 1..Len(colors) : colors[k] = symbol) - 1

Days == 1..Len(data)
Mapped == pc \in {"mapped", "split", "halved", "headed", "done"}
Dated == pc \in {"dated", "padded", "raised"} \/ Mapped
Padded == pc \in {"padded", "raised"} \/ Mapped
end_date == LET w == week_ends(start_date) IN w[Len(w)]

\* C1: for any series and any lastDay, the padded series has exactly 371
\* entries.
C1_PaddedLength == Padded => Len(data) = TOTAL_DAYS

\* C2: the window that get_start_date and the week walk of
\* identify_month_starts lay out has 53 weeks, each ending on a Saturday; it
\* starts on a Sunday and its last day, start_date + 370, is a Saturday.
C2_WindowAligned ==
    Dated =>
        LET w == week_ends(start_date)
        IN /\ Weekday(start_date) = 6
           /\ Len(w) = 53
           /\ \A k \in 1..Len(w) : Weekday(w[k]) = 5 /\ w[k] = start_date + 7 * k - 1
           /\ end_date = start_date + 370
           /\ end_date - start_date + 1 = 371

\* C2's case: the window of a Sunday reference date has been computed.
C2_Witness == pc = "dated" /\ Weekday(today) = 6 /\ Weekday(start_date) = 6

\* C3: the window's last day is the first Saturday on or after today, so today
\* lies in the window's last week, and start_date is 370 days before it.
C3_EndIsNextSaturday ==
    Dated => /\ Weekday(end_date) = 5
             /\ today <= end_date
             /\ end_date - today <= 6
             /\ start_date = end_date - 370

\* C4: a series without a positive count never makes the rendering raise, and
\* every day it maps gets the lowest level.
C4_NoPositiveNeverRaises ==
    (\A i \in 1..Len(testsByDays) : ~(testsByDays[i] > 0)) =>
        /\ error = ""
        /\ pc = "mapped" => \A i \in 1..Len(heatmap) : heatmap[i] = colors[1]

\* The thresholds as C5 states them: zeros kept among the non-null counts,
\* trimmed = filtered[trim : len - trim].
C5_ClaimedLimits(d) ==
    LET filtered == Sorted(SelectSeq(d, LAMBDA v : v # None))
        trim == Len(filtered) \div 10
        trimmed == SubSeq(filtered, trim + 1, Len(filtered) - trim)
        total == Sum(trimmed)
        n == Len(trimmed)
        max_value == Max(filtered)
    IN <<0, Ceil(total, 2 * n), Ceil(total, n), Ceil(3 * total, 2 * n),
         max_value - 1, max_value>>

\* C5: for a padded series with a positive count the thresholds are computed,
\* and equal [0, ceil(mean/2), ceil(mean), ceil(1.5*mean), max-1, max] over the
\* symmetric 10% trim of all non-null counts (no trim for 1 to 9 values).
C5_LimitsAsClaimed ==
    (pc \in {"mapped", "raised"} /\ \E i \in Days : data[i] > 0) =>
        /\ error = ""
        /\ limits = C5_ClaimedLimits(data)

\* C6 as stated: every day whose count is the maximum of the series is mapped
\* to level 5.
C6_MaxIsTop ==
    pc = "mapped" =>
        \A i \in Days : data[i] = limits[6] =>
            i \in DOMAIN heatmap /\ LevelOf(heatmap[i]) = 5

\* C6 amended: a mapped day whose count is the maximum gets level 5 exactly
\* when ceil(1.5*mean) is below the maximum.
C6_MaxIsTopIfSpread ==
    pc = "mapped" =>
        \A i \in Days : data[i] = limits[6] =>
            /\ i \in DOMAIN heatmap
            /\ LevelOf(heatmap[i]) = 5 <=> limits[4] < limits[6]

\* C6's case: a series whose maximum exceeds ceil(1.5*mean) has been mapped.
C6_Witness ==
    /\ pc = "mapped"
    /\ limits[4] < limits[6]
    /\ \E i \in Days : data[i] = limits[6] /\ heatmap[i] = colors[6]

\* C7: of two days with non-null counts a >= b, the day with a has a level at
\* least that of the day with b, whatever the limits.
C7_LevelMonotone ==
    pc = "mapped" =>
        LET vals == {data[i] : i \in Days} \ {None}
            levels(v) == {LevelOf(heatmap[i]) : i \in {j \in Days : data[j] = v}}
        IN /\ Len(heatmap) = Len(data)
           /\ \A a \in vals, b \in vals :
                 a >= b => \A x \in levels(a), y \in levels(b) : x >= y

\* C7's case: days with different counts were mapped under limits that are
\* not in ascending order, and got different levels.
C7_Witness ==
    /\ pc = "mapped"
    /\ limits[4] > limits[5]
    /\ \E i \in Days, j \in Days :
          /\ data[i] > data[j] /\ data[j] > 0
          /\ LevelOf(heatmap[i]) > LevelOf(heatmap[j])

\* C8 as stated: the six limits the days are classified with are in
\* non-decreasing order.
C8_LimitsNonDecreasing ==
    pc = "mapped" => \A k \in 1..5 : limits[k] <= limits[k + 1]

\* C8 amended: the limits are used as computed; the first four are in
\* non-decreasing order from 0, the last is the largest count and the fifth is
\* one below it.
C8_LimitsAsComputed ==
    pc = "mapped" =>
        /\ Len(limits) = 6
        /\ limits[1] = 0
        /\ \A k \in 1..3 : limits[k] <= limits[k + 1]
        /\ limits[5] = limits[6] - 1
        /\ \A i \in Days : data[i] <= limits[6]
        /\ \E i \in Days : data[i] = limits[6]

\* C8's case: limits whose fourth exceeds the fifth were used to map the days.
C8_Witness == pc = "mapped" /\ limits[4] > limits[5] /\ Len(heatmap) = Len(data)

\* C9: map_counts returns one level per input day, 371 of them for the padded
\* series, no count exceeding the last limit.
C9_OneLevelPerDay ==
    pc = "mapped" =>
        /\ Len(heatmap) = Len(data)
        /\ Len(heatmap) = TOTAL_DAYS
        /\ \A i \in Days : data[i] # None => data[i] <= limits[6]

\* C10 as stated: a None day's symbol is none of the six level symbols, so
\* never that of a zero-count day, and None is not turned into 0 in the
\* client's Activity.
C10_NoneIsDistinct ==
    /\ pc = "mapped" =>
          \A i \in Days : data[i] = None =>
              \A k \in 1..Len(colors) : heatmap[i] # colors[k]
    /\ pc = "fetched" =>
          \A i \in 1..Len(testsByDays) :
              testsByDays[i] = None => activity.daily_test_count[i] = None

\* C10 amended: a None day gets the level 0 symbol, the one a zero-count day
\* gets, and Activity.from_api stores 0 for a None count.
C10_NoneIsLevelZero ==
    /\ pc = "mapped" =>
          \A i \in Days : data[i] = None \/ data[i] = 0 =>
              i \in DOMAIN heatmap /\ heatmap[i] = colors[1]
    /\ pc = "fetched" =>
          /\ Len(activity.daily_test_count) = Len(testsByDays)
          /\ \A i \in 1..Len(testsByDays) :
                activity.daily_test_count[i] =
                    (IF testsByDays[i] = None THEN 0 ELSE testsByDays[i])

\* C10's case: a None day and a zero-count day were mapped to one symbol.
C10_Witness ==
    /\ pc = "mapped"
    /\ \E i \in Days, j \in Days :
          data[i] = None /\ data[j] = 0 /\ heatmap[i] = heatmap[j]

\* The entry of the original series that stands for the day of padded index i
\* (the original's last entry is today's), or 0 when that day is not covered.
SourceIndex(i) ==
    LET day == start_date + i - 1
        src == Len(testsByDays) - (today - day)
    IN IF day <= today /\ src >= 1 THEN src ELSE 0

\* C11 as stated: in the padded series every day outside the original
\* series' coverage is None, and every covered day keeps its value.
C11_PaddingIsNone ==
    Padded =>
        \A i \in Days :
            data[i] = (IF SourceIndex(i) = 0 THEN None
                       ELSE testsByDays[SourceIndex(i)])

\* C11 amended: entry i of the padded series stands for day start_date + i;
\* a day outside the original series' coverage is 0, a covered day keeps its
\* value, and the series runs to the later of today and start_date + 370.
C11_PaddingIsZero ==
    Padded =>
        LET full_range == today - start_date + 1
        IN /\ Len(data) = (IF full_range > TOTAL_DAYS THEN full_range
                                                     ELSE TOTAL_DAYS)
           /\ \A i \in Days :
                 data[i] = (IF SourceIndex(i) = 0 THEN 0
                            ELSE testsByDays[SourceIndex(i)])

\* C11's case: the five-entry series was padded at the front and at the back.
C11_Witness ==
    /\ pc = "padded"
    /\ testsByDays = Scenario
    /\ Len(data) = TOTAL_DAYS
    /\ today < start_date + 370
    /\ \A i \in Days : SourceIndex(i) = 0 => data[i] = 0
    /\ Cardinality({i \in Days : SourceIndex(i) = 0}) = 366

\* The number the header shows before " tests".
total_count == header[CHOOSE i \in 1..Len(header) : header[i].k = "num"].sgr[1]

\* The padded days that the grid draws: those whose level is in a week slice.
Displayed == {i \in Days : \E w \in 1..Len(weeks) : 7 * (w - 1) < i /\ i <= 7 * (w - 1) + Len(weeks[w])}

\* C12: the total_count of the header is the sum of the non-null counts of
\* exactly the 371 days drawn in the grid.
C12_TotalOfDisplayed ==
    pc \in {"headed", "done"} =>
        /\ Cardinality(Displayed) = TOTAL_DAYS
        /\ total_count =
              Sum(SelectSeq(SubSeq(data, 1, Cardinality(Displayed)), Truthy))

Halved == pc \in {"halved", "headed", "done"}

\* The four tokens of the glyph that printed line l (from 0) shows in week
\* column c (from 0).
CellAt(l, c) == SubSeq(half_rows[l + 1], 4 * c + 1, 4 * c + 4)

\* The glyph of a cell: the lower half block, whose upper half shows the
\* background colour and whose lower half shows the foreground colour.
TopHalf(cell) == cell[2].sgr[3]
BottomHalf(cell) == cell[1].sgr[3]
WellFormed(cell) ==
    /\ Len(cell) = 4
    /\ cell[1].k = "esc" /\ SubSeq(cell[1].sgr, 1, 2) = <<38, 5>>
    /\ cell[2].k = "esc" /\ SubSeq(cell[2].sgr, 1, 2) = <<48, 5>>
    /\ cell[3] = Glyph("lower_half_block")
    /\ cell[4] = Esc(<<0>>)

\* C13: the day at index k (0..370) is drawn in week column k div 7 and
\* weekday row k mod 7; with a row of colour 0 put first, the rows are printed
\* as 4 lines of 53 glyphs, (blank, Sun), (Mon, Tue), (Wed, Thu), (Fri, Sat),
\* the earlier row in the upper half of the glyph and the later in the lower.
C13_GridLayout ==
    Halved =>
        /\ Len(rows) = 7
        /\ \A r \in 1..7 : Len(rows[r]) = 53
        /\ Len(half_rows) = 4
        /\ \A l \in 0..3 :
              /\ Len(half_rows[l + 1]) = 4 * 53
              /\ \A c \in 0..52 : WellFormed(CellAt(l, c))
        /\ \A c \in 0..52 : TopHalf(CellAt(0, c)) = 0
        /\ \A k \in 0..(TOTAL_DAYS - 1) :
              LET c == k \div 7
                  r == k % 7
                  cell == CellAt((r + 1) \div 2, c)
              IN /\ rows[r + 1][c + 1] = heatmap[k + 1]
                 /\ Weekday(start_date + k) = (r + 6) % 7
                 /\ IF r % 2 = 0
                    THEN BottomHalf(cell) = heatmap[k + 1]
                    ELSE TopHalf(cell) = heatmap[k + 1]

\* C13's case: a Monday and the Tuesday after it have different levels and
\* were drawn in one glyph.
C13_Witness ==
    /\ pc = "halved"
    /\ \E k \in 0..(TOTAL_DAYS - 1) :
          /\ k % 7 = 1
          /\ heatmap[k + 1] # heatmap[k + 2]
          /\ TopHalf(CellAt(1, k \div 7)) = heatmap[k + 1]
          /\ BottomHalf(CellAt(1, k \div 7)) = heatmap[k + 2]

\* The colours of the header's swatches, from "less" to "more".
legend ==
    LET at == SelectSeq([i \in 1..Len(header) |-> i],
                        LAMBDA i : header[i] = Glyph("black_square"))
    IN [j \in 1..Len(at) |-> header[at[j] - 1].sgr[3]]

\* C16: the header shows 6 swatches, and the swatch of level i has the colour
\* of the grid cells of level i.
C16_LegendIsGridPalette ==
    pc \in {"headed", "done"} =>
        /\ Len(legend) = 6
        /\ \A i \in 1..6 : legend[i] = colors[i]

\* The index in the padded series of the series' most recent day.
last_day_index == today - start_date + 1

\* C19: the count of last_day is drawn in week column 52 at the row of its
\* weekday (Sunday 0 .. Saturday 6), and the cells below it in that column
\* are padding.
C19_LastDayInLastColumn ==
    pc \in {"split", "halved", "headed", "done"} =>
        LET r == (Weekday(today) + 1) % 7
        IN /\ last_day_index \in Displayed
           /\ last_day_index = 7 * 52 + r + 1
           /\ rows[r + 1][53] = heatmap[last_day_index]
           /\ \A i \in Days : i > last_day_index => data[i] = 0

\* The days by which the padded series runs past today.
days_after_today == Len(data) - (today - start_date + 1)

\* C15 as stated: padding a 371-long padded series again, with the same
\* start_date and today, returns it unchanged, on any weekday.
C15_Idempotent ==
    (pc = "repadded" /\ Len(data) = TOTAL_DAYS) => repadded = data

\* C15 amended: padding the padded series again moves it to the left by the
\* days it runs past today and fills the end with 0; it is unchanged exactly
\* when it ends today.
C15_SecondPassShifts ==
    pc = "repadded" =>
        /\ days_after_today = (IF Weekday(today) = 6 THEN 0
                               ELSE 5 - Weekday(today))
        /\ Len(repadded) = Len(data)
        /\ \A i \in Days :
              repadded[i] = (IF i + days_after_today <= Len(data)
                             THEN data[i + days_after_today] ELSE 0)

\* C15's case: a series ending on a Wednesday was padded twice, and the
\* second result differs from the first.
C15_Witness ==
    /\ pc = "repadded"
    /\ Weekday(today) = 2
    /\ Len(data) = TOTAL_DAYS
    /\ repadded # data
    /\ repadded[Len(data) - 3] = data[Len(data)]

\* The characters of a line that the terminal shows before token i.
RECURSIVE VisibleBefore(_, _)
VisibleBefore(ts, i) ==
    IF i <= 1 THEN 0
    ELSE VisibleBefore(ts, i - 1)
         + (IF ts[i - 1].k = "esc" THEN 0 ELSE TokenLen(ts[i - 1]))

IsBlank(t) == t.k = "esc" \/ (t.k = "txt" /\ t.c \in {" ", "    "})

\* The labels of the footer: where each starts (0 = the first character of
\* the line) and what it says.
FooterLabels ==
    {<<VisibleBefore(month_labels, i), month_labels[i].c>> :
        i \in {j \in 1..Len(month_labels) : ~IsBlank(month_labels[j])}}

\* The week columns that hold the first day of a month, by the calendar.
FirstDayColumns ==
    {c \in 0..52 :
        \E d \in 0..6 : CivilFromDays(start_date + 7 * c + d).day = 1}

MonthOfColumn(c) ==
    months[CivilFromDays(
        CHOOSE day \in (start_date + 7 * c)..(start_date + 7 * c + 6) :
            CivilFromDays(day).day = 1).month]

\* The 1st, 3rd, 5th, ... of those columns.
EveryOtherColumn ==
    {c \in FirstDayColumns :
        Cardinality({b \in FirstDayColumns : b < c}) % 2 = 0}

\* In a printed line the glyph of week column c is character 2 + c: a grid
\* line starts with a space and a space on colour 0 (add_row_labels).
ColumnPosition(c) == 2 + c

\* C14: for a window starting on any Sunday the footer shows every other
\* month start of the window (the 1st, 3rd, ...), as the month's 3-letter
\* name starting under the week column that holds the month's first day;
\* everything else is blank and no two labels overlap.
C14_FooterLabels ==
    pc = "labelled" =>
        /\ Weekday(start_date) = 6
        /\ \A c \in 0..52 :
              (c \in FirstDayColumns) <=>
                  CivilFromDays(start_date + 7 * c + 6).day < 8
        /\ FooterLabels =
              {<<ColumnPosition(c), MonthOfColumn(c)>> : c \in EveryOtherColumn}
        /\ \A a \in FooterLabels, b \in FooterLabels :
              a[1] < b[1] => a[1] + 3 <= b[1]
        /\ \A i \in 1..Len(month_labels) :
              ~IsBlank(month_labels[i]) => Len(month_labels[i].c) = 3
        /\ found = identify_month_starts(start_date)

\* C14's case: the footer of the window that starts on Sunday 2024-12-29,
\* whose first and last week both hold a first of January.
C14_Witness ==
    /\ pc = "labelled"
    /\ CivilFromDays(start_date) = [year |-> 2024, month |-> 12, day |-> 29]
    /\ <<ColumnPosition(0), "jan">> \in FooterLabels
    /\ <<ColumnPosition(52), "jan">> \in FooterLabels
    /\ Cardinality(FooterLabels) = 7

\* C18: get_total_level_xp(L) is the least XP of level L: get_level of it is
\* L and get_level of one XP less is L - 1; and the XP within the level is at
\* least 0 and below the level's get_level_max_xp.
C18_TotalIsInverse ==
    /\ pc \in {"totalled", "profiled", "detailed"} =>
          /\ get_level(total_xp) = xp_level
          /\ xp_level >= 2 => get_level(total_xp - 1) = xp_level - 1
          /\ total_level_xp(xp_level) = total_xp
          /\ calculate_level(total_xp) = xp_level
    /\ pc \in {"profiled", "detailed"} =>
          /\ profile.xp >= 0
          /\ profile.level >= 1
          /\ profile.level = xp_level <=>
                /\ total_xp <= profile.xp
                /\ profile.xp < total_xp + get_level_max_xp(xp_level)
          /\ 0 <= profile.level_current_xp
          /\ profile.level_current_xp < profile.level_max_xp
          /\ profile.level_max_xp = get_level_max_xp(get_level(profile.xp))
    /\ pc = "detailed" =>
          /\ details.level = profile.level
          /\ details.current_xp = profile.level_current_xp
          /\ 0 <= details.current_xp /\ details.current_xp < details.max_xp
          /\ details.needed_xp > 0

\* C18's case: a profile one XP short of a level of 2 or more is in the
\* level before, with all but one of that level's XP.
C18_Witness ==
    /\ pc = "profiled"
    /\ xp_level >= 2
    /\ profile.xp = total_xp - 1
    /\ profile.level = xp_level - 1
    /\ profile.level_current_xp = profile.level_max_xp - 1

\* C17: after apply returns, whatever calls came before, the builder has no
\* pending code and no retained state, and the returned string ends with the
\* reset sequence if a style is still active.
C17_ApplyResets ==
    (pc = "ansi" /\ last.op = "apply") =>
        /\ ansi.codes = << >>
        /\ DOMAIN ansi.state = {}
        /\ term # TermClear => ret[Len(ret)] = Esc(<<0>>)

\* The styles that a state dict stands for.
StateStyles(state) ==
    [bold |-> "bold" \in DOMAIN state,
     ital |-> "ital" \in DOMAIN state,
     uline |-> "uline" \in DOMAIN state,
     fg |-> IF "fg" \in DOMAIN state THEN CodeColor(state["fg"]) ELSE None,
     bg |-> IF "bg" \in DOMAIN state THEN CodeColor(state["bg"]) ELSE None]

\* C20: with every returned string written to the terminal in order, what
\* the terminal has active once the pending codes are written too is what
\* state says; and enabling what is on, disabling what is off or setting the
\* current colour again appends no code.
C20_TerminalMatchesState ==
    pc = "ansi" =>
        /\ Write(dunder_str(ansi).ret, term) = StateStyles(ansi.state)
        /\ last.redundant => last.appended = 0
        /\ (last.op \in {"bold", "ital", "uline", "bold_off", "ital_off",
                          "uline_off"} /\ ~last.redundant) => last.appended = 1

\* C20's case: with codes pending that the terminal has not seen, the current
\* foreground colour was set again and no code was appended.
C20_Witness ==
    /\ pc = "ansi"
    /\ last.op = "fg"
    /\ last.redundant
    /\ last.appended = 0
    /\ Len(ansi.codes) = MaxPending
    /\ term # StateStyles(ansi.state)
    /\ term # TermClear

====
